---- MODULE Spec2Model ----
(***************************************************************************)
(* A model of the hashira RAG chatbot: the conversation loop               *)
(* (ai_conversation.py, utils.py), the vector store manager                *)
(* (get_chroma_db), the documentation extractor (text_extractor.py) and    *)
(* the summarizing extractor (text_retriever_summarizing.py).              *)
(*                                                                         *)
(* Texts are sequences of one-character strings, so that lower(),          *)
(* endswith() and the regular expressions are computed, not assumed.       *)
(***************************************************************************)
EXTENDS Integers, Sequences, FiniteSets, TLC

VARIABLES
    \* ---- conversation engine (ai_conversation.py run_conversation) ----
    chat_type,      \* config["chat_type"] of the running session
    pc,             \* "idle" | "prompt" | "done" | "crashed"
    chat_history,   \* the list chat_history of run_conversation
    calls,          \* the chain calls made in this session, in order
    linesRead,      \* the lines input() returned in this session, in order
    depth,          \* nested get_query_from_user frames of the current prompt
    endReason,      \* why the session ended
    sessions,       \* number of run_conversation calls so far
    \* ---- vector store manager (ai_conversation.py get_chroma_db) ----
    persisted,      \* the chunks of the index persisted at config["chroma_db_name"]
    vectorstore,    \* the chunks of the store get_chroma_db returned last
    embedded,       \* the chunks handed to the embedding function by the last call
    lastCall,       \* the last get_chroma_db call: flag, documents, index before it
    runs,           \* number of get_chroma_db calls so far
    \* ---- extractor (text_extractor.py, text_retriever_summarizing.py) ----
    response_text,  \* response.text of the last download_file call
    jsonl,          \* the line-delimited file: NoFile, or its records in order
    remote,         \* the repository served by the contents API: root directory node
    nRepos,         \* len(config["github"]["repos"])
    xpc,            \* position of the extractor's main
    repoIdx,        \* repositories traversed so far by main's loop
    lastTraversal,  \* what the last top-level process_directory call did
    runRecords,     \* the records appended since main started
    tar,            \* the tar archive: NoFile, or its members in order
    \* ---- summarizing extractor (text_retriever_summarizing.py) ----
    summarized      \* the last summarizing download_file call: text, segments, calls

chatVars == <<chat_type, pc, chat_history, calls, linesRead, depth, endReason, sessions>>

storeVars == <<persisted, vectorstore, embedded, lastCall, runs>>

cleanVars == <<response_text, jsonl>>

extractVars == <<remote, nRepos, xpc, repoIdx, lastTraversal, runRecords, tar>>

vars == <<chatVars, storeVars, cleanVars, extractVars, summarized>>

(***************************************************************************)
(* Bounds of the model.                                                    *)
(***************************************************************************)
MaxLines == 3          \* lines read per session
MaxSessions == 2       \* run_conversation calls
RecursionLimit == 2    \* stands for the interpreter's recursion limit
MaxDocs == 2           \* chunks handed to get_chroma_db
MaxPieces == 3         \* fragments a downloaded text is made of
MaxEntries == 3        \* entries of the repository tree below its root
MaxItems == 3          \* fences and prose blocks a summarized text is made of
MaxRuns == 3           \* get_chroma_db calls (one per process run)

(***************************************************************************)
(* Characters and strings.                                                 *)
(***************************************************************************)
RECURSIVE FlattenSeq(_)
FlattenSeq(ss) == IF ss = <<>> THEN <<>> ELSE Head(ss) \o FlattenSeq(Tail(ss))

Last(s) == s[Len(s)]

\* the sequences over S of length at most n
RECURSIVE SeqsUpTo(_, _)
SeqsUpTo(S, n) ==
    IF n = 0 THEN {<<>>}
    ELSE LET shorter == SeqsUpTo(S, n - 1) IN
         shorter \cup {Append(q, x) : q \in shorter, x \in S}

\* str.lower() on the characters the model uses
LowerChar(c) ==
    CASE c = "A" -> "a" [] c = "I" -> "i" [] c = "L" -> "l"
      [] c = "R" -> "r" [] c = "S" -> "s" [] c = "H" -> "h"
      [] OTHER -> c

lower(s) == [i \in 1..Len(s) |-> LowerChar(s[i])]

salir == <<"s", "a", "l", "i", "r">>

\* The input lines the user may type.
Lines ==
    { <<>>,
      salir,
      <<"S", "A", "L", "I", "R">>,
      <<"S", "a", "l", "i", "r">>,
      <<"S", "A", "L", "I", "R", " ">>,
      <<" ", "s", "a", "l", "i", "r">>,
      <<"h", "i">>,
      <<"H", "I">> }

Answers == {"a1", "a2"}
Raise == "raise"                       \* the chain call raises

ChatTypes == {"qa_chat", "memory_chat"}

(***************************************************************************)
(* ai_conversation.py                                                      *)
(***************************************************************************)
\* line 170: query.lower() == "salir"
IsSalir_stripped(query) ==
    LET ns == SelectSeq(query, LAMBDA c : c # " ") IN lower(ns) = salir
IsSalir(query) == lower(query) = salir

\* process_qa_query: the chain call made for a query (lines 99-103)
process_qa_query_leaky(query, retriever, llm) ==
    [chain |-> "RetrievalQA",
     inputs |-> [query |-> query, retriever |-> retriever, llm |-> llm,
                 chat_history |-> linesRead]]
process_qa_query(query, retriever, llm) ==
    [chain |-> "RetrievalQA",
     inputs |-> [query |-> query, retriever |-> retriever, llm |-> llm]]

\* process_conversation_query: the chain call made for a query (lines 123-131)
process_conversation_query(query, retriever, llm, history) ==
    [chain |-> "ConversationalRetrievalChain",
     inputs |-> [question |-> query, chat_history |-> history,
                 retriever |-> retriever, llm |-> llm]]

\* line 132: chat_history.append((query, result["answer"]))
chat_history_prepend(history, query, answer) == <<<<query, answer>>>> \o history
chat_history_append(history, query, answer) == Append(history, <<query, answer>>)

\* lines 173-178: the handler of the active mode
dispatch(ct, query, history) ==
    IF ct = "memory_chat"
    THEN process_conversation_query(query, "retriever", "llm", history)
    ELSE process_qa_query(query, "retriever", "llm")

\* run_conversation up to its first prompt (lines 145-168)
run_conversation(ct) ==
    /\ pc \in {"idle", "done", "crashed"}
    /\ sessions < MaxSessions
    /\ chat_type' = ct
    /\ chat_history' = <<>>
    /\ calls' = <<>>
    /\ linesRead' = <<>>
    /\ depth' = 0
    /\ endReason' = "none"
    /\ sessions' = sessions + 1
    /\ pc' = "prompt"
    /\ UNCHANGED <<storeVars, cleanVars, extractVars, summarized>>

\* utils.py get_query_from_user, input() raising EOFError (lines 67-69): the
\* handler calls get_query_from_user again, one frame deeper; past the
\* interpreter's recursion limit that call raises RecursionError, which no
\* handler catches.
get_query_from_user_eof ==
    /\ pc = "prompt"
    /\ IF depth < RecursionLimit
       THEN /\ depth' = depth + 1
            /\ UNCHANGED <<pc, endReason>>
       ELSE /\ pc' = "crashed"
            /\ endReason' = "RecursionError"
            /\ depth' = 0
    /\ UNCHANGED <<chat_type, chat_history, calls, linesRead, sessions>>
    /\ UNCHANGED <<storeVars, cleanVars, extractVars, summarized>>

\* input() returns a line (utils.py lines 65-66): every nested frame returns
\* it, and the loop body runs (ai_conversation.py lines 170-180).
loop_iteration(line, outcome) ==
    /\ pc = "prompt"
    /\ Len(linesRead) < MaxLines
    /\ linesRead' = Append(linesRead, line)
    /\ depth' = 0
    /\ IF IsSalir(line)
       THEN /\ pc' = "done"
            /\ endReason' = "sentinel"
            /\ UNCHANGED <<chat_history, calls>>
       ELSE /\ calls' = Append(calls,
                   [call |-> dispatch(chat_type, line, chat_history),
                    result |-> outcome])
            /\ IF outcome = Raise
               THEN /\ pc' = "crashed"
                    /\ endReason' = "call_failed"
                    /\ UNCHANGED chat_history
               ELSE /\ pc' = "prompt"
                    /\ UNCHANGED endReason
                    /\ chat_history' =
                         IF chat_type = "memory_chat"
                         THEN chat_history_append(chat_history, line, outcome)
                         ELSE chat_history
    /\ UNCHANGED <<chat_type, sessions>>
    /\ UNCHANGED <<storeVars, cleanVars, extractVars, summarized>>

(***************************************************************************)
(* ai_conversation.py get_chroma_db (lines 62-84).  An index is the        *)
(* sequence of the chunks it holds (one entry per stored chunk).           *)
(***************************************************************************)
Chunks == {"c1", "c2"}

DocumentLists == SeqsUpTo(Chunks, MaxDocs)

\* lines 77-81, Chroma.from_documents(documents, embedding, persist_directory):
\* the vector store class opens (or creates) its collection in
\* persist_directory, embeds the documents and adds them to that collection
\* under fresh ids.  The source removes nothing at path before the call.
Chroma_from_documents(documents, disk) ==
    [store |-> disk \o documents, disk |-> disk \o documents, embedded |-> documents]

\* line 84, Chroma(persist_directory, embedding_function): opens the
\* collection persisted at path; it is handed no documents.
Chroma_open(disk) ==
    [store |-> disk, disk |-> disk, embedded |-> <<>>]

get_chroma_db_always_build(recreate, documents, disk) ==
    Chroma_from_documents(documents, disk)
get_chroma_db(recreate, documents, disk) ==
    IF recreate
    THEN Chroma_from_documents(documents, disk)
    ELSE Chroma_open(disk)

\* main (lines 187-195): one process run, up to the store it converses over.
main_get_chroma_db(recreate, documents) ==
    /\ runs < MaxRuns
    /\ LET r == get_chroma_db(recreate, documents, persisted) IN
       /\ persisted' = r.disk
       /\ vectorstore' = r.store
       /\ embedded' = r.embedded
    /\ lastCall' = [made |-> TRUE, recreate |-> recreate,
                    documents |-> documents, before |-> persisted]
    /\ runs' = runs + 1
    /\ UNCHANGED <<chatVars, cleanVars, extractVars, summarized>>

StoreInit ==
    /\ persisted = <<>>
    /\ vectorstore = <<>>
    /\ embedded = <<>>
    /\ lastCall = [made |-> FALSE, recreate |-> FALSE,
                   documents |-> <<>>, before |-> <<>>]
    /\ runs = 0

NextStore ==
    \E recreate \in BOOLEAN, documents \in DocumentLists :
        main_get_chroma_db(recreate, documents)

(***************************************************************************)
(* text_extractor.py preprocess_text and download_file (lines 24-54).      *)
(* re.sub scans left to right and replaces the leftmost non-overlapping    *)
(* matches; a matcher gives the index of the last character of the match   *)
(* that starts at i, or 0 when the pattern does not match there.           *)
(***************************************************************************)
NoFile == "<no file>"

WS == {" ", "\n", "\t"}                          \* \s
Emoji == {"U+1F600"}                             \* one emoji character
EmojiName(c) ==                                  \* emoji.demojize of it
    <<":", "g", "r", "i", "n", "n", "i", "n", "g", "_", "f", "a", "c", "e", ":">>
TokenClass ==                                    \* [a-z_&+-]
    {"a", "b", "c", "d", "e", "f", "g", "h", "i", "j", "k", "l", "m", "n", "o",
     "p", "q", "r", "s", "t", "u", "v", "w", "x", "y", "z", "_", "&", "+", "-"}

Min(S) == CHOOSE x \in S : \A y \in S : x <= y

\* text[i:].startswith(lit)
StartsWithAt(t, i, lit) ==
    /\ i + Len(lit) - 1 <= Len(t)
    /\ \A k \in 1..Len(lit) : t[i + k - 1] = lit[k]

\* the last index of the longest run of characters outside stop from i on
RunEnd(t, i, stop) ==
    LET ends == {j \in i..Len(t) : t[j] \in stop} IN
    IF ends = {} THEN Len(t) ELSE Min(ends) - 1

\* <[^>]*>
match_tag(t, i) ==
    IF t[i] = "<" /\ \E j \in (i + 1)..Len(t) : t[j] = ">"
    THEN Min({j \in (i + 1)..Len(t) : t[j] = ">"})
    ELSE 0

\* http\S+|www.\S+   (the dot after www is unescaped: any character but \n)
match_url(t, i) ==
    IF /\ StartsWithAt(t, i, <<"h", "t", "t", "p">>)
       /\ i + 4 <= Len(t) /\ t[i + 4] \notin WS
    THEN RunEnd(t, i + 4, WS)
    ELSE IF /\ StartsWithAt(t, i, <<"w", "w", "w">>)
            /\ i + 4 <= Len(t) /\ t[i + 3] # "\n" /\ t[i + 4] \notin WS
    THEN RunEnd(t, i + 4, WS)
    ELSE 0

\* Copyright.*   (the dot stops at \n)
match_copyright(t, i) ==
    IF StartsWithAt(t, i, <<"C", "o", "p", "y", "r", "i", "g", "h", "t">>)
    THEN RunEnd(t, i + 9, {"\n"})
    ELSE 0

\* :[a-z_&+-]+:
match_emoji_token(t, i) ==
    IF t[i] = ":" /\ i + 1 <= Len(t) /\ t[i + 1] \in TokenClass
    THEN LET after == {j \in (i + 1)..Len(t) : t[j] \notin TokenClass} IN
         IF after # {} /\ t[Min(after)] = ":" THEN Min(after) ELSE 0
    ELSE 0

\* \s+
match_whitespace(t, i) ==
    IF t[i] \in WS
    THEN LET after == {j \in i..Len(t) : t[j] \notin WS} IN
         IF after = {} THEN Len(t) ELSE Min(after) - 1
    ELSE 0

\* re.match of one of the source's patterns at index i: the index of the
\* match's last character, 0 when the pattern does not match there
re_match(pattern, t, i) ==
    CASE pattern = "<[^>]*>" -> match_tag(t, i)
      [] pattern = "http\\S+|www.\\S+" -> match_url(t, i)
      [] pattern = "Copyright.*" -> match_copyright(t, i)
      [] pattern = ":[a-z_&+-]+:" -> match_emoji_token(t, i)
      [] pattern = "\\s+" -> match_whitespace(t, i)

\* re.sub(pattern, repl, t), from index i on
RECURSIVE re_sub(_, _, _, _)
re_sub(pattern, repl, t, i) ==
    IF i > Len(t) THEN <<>>
    ELSE LET e == re_match(pattern, t, i) IN
         IF e # 0 THEN repl \o re_sub(pattern, repl, t, e + 1)
         ELSE <<t[i]>> \o re_sub(pattern, repl, t, i + 1)

\* text.replace("\n", " ")
replace_newlines(t) == [i \in 1..Len(t) |-> IF t[i] = "\n" THEN " " ELSE t[i]]

\* emoji.demojize(text)
demojize(t) ==
    FlattenSeq([i \in 1..Len(t) |->
                   IF t[i] \in Emoji THEN EmojiName(t[i]) ELSE <<t[i]>>])

\* text.strip()
strip(t) ==
    LET keep == {j \in 1..Len(t) : t[j] \notin WS} IN
    IF keep = {} THEN <<>>
    ELSE SubSeq(t, Min(keep), CHOOSE j \in keep : \A k \in keep : k <= j)

\* preprocess_text (lines 24-31)
preprocess_text(text) ==
    LET t1 == re_sub("<[^>]*>", <<>>, text, 1)
        t2 == re_sub("http\\S+|www.\\S+", <<>>, t1, 1)
        t3 == re_sub("Copyright.*", <<>>, t2, 1)
        t4 == replace_newlines(t3)
        t5 == demojize(t4)
    IN  re_sub(":[a-z_&+-]+:", <<>>, t5, 1)

\* download_file (lines 34-52): the record written for a downloaded text.
\* url is the list of the "/"-separated parts of the download URL.
download_file(url, repo_info, text) ==
    [title |-> Last(url),
     repo_owner |-> repo_info.owner,
     repo_name |-> repo_info.repo,
     text |-> strip(re_sub("\\s+", <<" ">>, preprocess_text(text), 1))]

\* open(jsonl_file_name, "a") ... write(json.dumps(file_dict) + "\n")
append_record(file, rec) ==
    IF file = NoFile THEN <<rec>> ELSE Append(file, rec)

\* The fragments the downloaded texts of the model are concatenated from.
Fragments ==
    { <<"<", "b", ">">>, <<"<">>, <<">">>,
      <<"h", "t">>, <<"t", "p", ":", "/", "x">>,
      <<":", "a", ":">>, <<":">>,
      <<"C", "o", "p", "y">>, <<"r", "i", "g", "h", "t">>,
      <<"w", "w", "w">>, <<".", "x">>, <<"x">>,
      <<" ">>, <<"\n">>, <<"U+1F600">> }

Texts == {FlattenSeq(ps) : ps \in SeqsUpTo(Fragments, MaxPieces)}

SampleRepo == [owner |-> "huggingface", repo |-> "transformers", path |-> "docs"]

\* One download_file call on a text the server may return.
download_file_call(text) ==
    /\ jsonl = NoFile
    /\ response_text' = text
    /\ jsonl' = append_record(jsonl,
                    download_file(<<"raw", "index.md">>, SampleRepo, text))
    /\ UNCHANGED <<chatVars, storeVars, extractVars, summarized>>

CleanInit ==
    /\ response_text = <<>>
    /\ jsonl = NoFile

NextClean ==
    /\ jsonl = NoFile
    /\ \E text \in Texts : download_file_call(text)

(***************************************************************************)
(* text_extractor.py process_directory and main (lines 57-129); the        *)
(* summarizing extractor's process_directory and main                      *)
(* (text_retriever_summarizing.py lines 93-172) have the same structure.   *)
(*                                                                         *)
(* The repository is a tree of nodes [type, name, path, download_url, ok,  *)
(* children]: path is the list of the "/"-separated parts, ok says whether *)
(* listing the directory answers 200, children is what it lists.           *)
(***************************************************************************)
Digits == <<"1", "2", "3", "4", "5", "6">>
DotMd == <<".", "m", "d">>
DotMdx == <<".", "m", "d", "x">>

\* name.endswith(suffix)
endswith(name, suffix) ==
    /\ Len(suffix) <= Len(name)
    /\ SubSeq(name, Len(name) - Len(suffix) + 1, Len(name)) = suffix

\* What an entry that lists nothing below it can be: type and name suffix.
LeafKinds ==
    { [type |-> "file", suffix |-> DotMd],
      [type |-> "file", suffix |-> DotMdx],
      [type |-> "file", suffix |-> <<"m", "d">>],
      [type |-> "symlink", suffix |-> DotMd] }
\* What a directory can be: name suffix and whether its listing answers 200.
DirKinds ==
    { [suffix |-> <<>>, ok |-> TRUE],
      [suffix |-> <<>>, ok |-> FALSE],
      [suffix |-> DotMd, ok |-> TRUE] }

Node(type, name, parent, ok, children) ==
    [type |-> type, name |-> name, path |-> Append(parent, name),
     download_url |-> <<"raw">> \o Append(parent, name),
     ok |-> ok, children |-> children]

\* The listings of exactly n entries (subtrees included) of directory parent,
\* the first of them being its i-th entry.
RECURSIVE Listings(_, _, _)
Listings(n, parent, i) ==
    IF n = 0 THEN {<<>>}
    ELSE UNION { LET name(k) == <<Digits[i]>> \o k.suffix
                     first ==
                        (IF size = 1
                         THEN {Node(k.type, name(k), parent, TRUE, <<>>) : k \in LeafKinds}
                         ELSE {})
                        \cup
                        UNION { {Node("dir", name(k), parent, k.ok, c) :
                                   c \in Listings(size - 1, Append(parent, name(k)), 1)}
                                : k \in DirKinds }
                 IN  {<<e>> \o rest : e \in first, rest \in Listings(n - size, parent, i + 1)}
               : size \in 1..n }

RootPath == <<<<"d", "o", "c", "s">>>>           \* repo_info["path"]
RepoCounts == {1, 2}                              \* len(config["github"]["repos"])

Repositories ==
    { [type |-> "dir", name |-> Last(RootPath), path |-> RootPath,
       download_url |-> <<>>, ok |-> ok, children |-> c]
      : ok \in BOOLEAN, c \in UNION {Listings(n, RootPath, 1) : n \in 0..MaxEntries} }

\* The directory node with the given path below (or at) node d, or NoNode.
NoNode == [type |-> "none"]
RECURSIVE FindNode(_, _)
FindNode(d, path) ==
    IF d.path = path THEN d
    ELSE LET hits == {FindNode(d.children[i], path) : i \in 1..Len(d.children)} \ {NoNode}
         IN  IF hits = {} THEN NoNode ELSE CHOOSE h \in hits : TRUE

\* requests.get(base_url + path): status code and JSON listing (lines 63-70)
listing_request(path) ==
    LET d == FindNode(remote, path) IN
    IF d # NoNode /\ d.type = "dir" /\ d.ok
    THEN [status_code |-> 200,
          json |-> [i \in 1..Len(d.children) |->
                       [type |-> d.children[i].type, name |-> d.children[i].name,
                        path |-> d.children[i].path,
                        download_url |-> d.children[i].download_url]]]
    ELSE [status_code |-> 404, json |-> <<>>]

\* requests.get(url).text of a raw file
SampleBody == <<"<", "b", ">", "a", "\n">>

\* line 72-74: file["name"].endswith(".mdx") or file["name"].endswith(".md")
is_markdown_no_dot(name) == endswith(name, <<"m", "d">>) \/ endswith(name, DotMdx)
is_markdown(name) == endswith(name, DotMdx) \/ endswith(name, DotMd)

NoEffects == [listings |-> <<>>, downloads |-> <<>>, records |-> <<>>]
Then(a, b) ==
    [listings |-> a.listings \o b.listings,
     downloads |-> a.downloads \o b.downloads,
     records |-> a.records \o b.records]

\* process_directory (lines 57-96): the listing requests it issues, the
\* files it downloads and the records it appends, in order.  process_files
\* is its loop over the listing, from the i-th entry on.
RECURSIVE process_directory(_, _)
RECURSIVE process_files(_, _, _)
process_files(files, i, repo_info) ==
    IF i > Len(files) THEN NoEffects
    ELSE LET file == files[i]
             here ==
                IF file.type = "file" /\ is_markdown(file.name)
                THEN [listings |-> <<>>,
                      downloads |-> <<file.download_url>>,
                      records |-> <<download_file(file.download_url, repo_info, SampleBody)>>]
                ELSE IF file.type = "dir"
                THEN process_directory(file.path, repo_info)
                ELSE NoEffects
         IN  Then(here, process_files(files, i + 1, repo_info))

process_directory(path, repo_info) ==
    LET response == listing_request(path)
        asked == [listings |-> <<path>>, downloads |-> <<>>, records |-> <<>>]
    IN  IF response.status_code = 200
        THEN Then(asked, process_files(response.json, 1, repo_info))
        ELSE asked

RECURSIVE append_records(_, _)
append_records(file, recs) ==
    IF recs = <<>> THEN file
    ELSE append_records(append_record(file, Head(recs)), Tail(recs))

\* A run of the same day left its date-stamped file behind.
StaleRecord == [title |-> <<"o", "l", "d">>, repo_owner |-> "huggingface",
                repo_name |-> "transformers", text |-> <<"o", "l", "d">>]
earlier_run_left_file ==
    /\ xpc = "idle"
    /\ jsonl = NoFile
    /\ jsonl' = <<StaleRecord>>
    /\ UNCHANGED <<chatVars, storeVars, response_text, extractVars, summarized>>

\* main up to its loop (lines 100-117): the token check, create_dir and
\* remove_existing_file.
main_start(token_set, repository, repos) ==
    /\ xpc = "idle"
    /\ remote' = repository
    /\ nRepos' = repos
    /\ repoIdx' = 0
    /\ runRecords' = <<>>
    /\ lastTraversal' = NoEffects
    /\ IF token_set
       THEN /\ xpc' = "traversing"
            /\ jsonl' = NoFile
       ELSE /\ xpc' = "no_token"
            /\ UNCHANGED jsonl
    /\ UNCHANGED <<chatVars, storeVars, response_text, tar, summarized>>

\* one iteration of main's loop over the repositories (lines 119-125)
main_process_repo ==
    /\ xpc = "traversing"
    /\ repoIdx < nRepos
    /\ LET eff == process_directory(RootPath, SampleRepo) IN
       /\ lastTraversal' = eff
       /\ jsonl' = append_records(jsonl, eff.records)
       /\ runRecords' = runRecords \o eff.records
    /\ repoIdx' = repoIdx + 1
    /\ UNCHANGED <<chatVars, storeVars, response_text, remote, nRepos, xpc, tar, summarized>>

\* the archive step (lines 127-129): tarfile.open(..., "w") creates the
\* archive, tar.add raises when the file is missing and the with block
\* closes the (empty) archive.
main_tar ==
    /\ xpc = "traversing"
    /\ repoIdx = nRepos
    /\ IF jsonl = NoFile
       THEN /\ tar' = <<>>
            /\ xpc' = "crashed"
       ELSE /\ tar' = <<[name |-> "jsonl", content |-> jsonl]>>
            /\ xpc' = "done"
    /\ UNCHANGED <<chatVars, storeVars, cleanVars, remote, nRepos, repoIdx,
                   lastTraversal, runRecords, summarized>>

ExtractInit ==
    /\ remote = [type |-> "dir", name |-> Last(RootPath), path |-> RootPath,
                 download_url |-> <<>>, ok |-> TRUE, children |-> <<>>]
    /\ nRepos = 0
    /\ xpc = "idle"
    /\ repoIdx = 0
    /\ lastTraversal = NoEffects
    /\ runRecords = <<>>
    /\ tar = NoFile

NextExtract ==
    \/ earlier_run_left_file
    \/ /\ xpc = "idle"
       /\ \E token_set \in BOOLEAN, repository \in Repositories, repos \in RepoCounts :
             main_start(token_set, repository, repos)
    \/ main_process_repo
    \/ main_tar

(***************************************************************************)
(* text_retriever_summarizing.py summarize_text, process_sequences and     *)
(* download_file (lines 43-90), from the cleaned text on.  A cleaned text  *)
(* is a sequence of items: the fence (three backticks) or a block of      *)
(* prose of n tokens (prose holds no backtick); a segment is a sequence    *)
(* of items.                                                               *)
(***************************************************************************)
MAX_TOKENS_ACCEPTED_BY_SUMMARIZER == 1024
MIN_TOKENS_TO_SUMMARIZE == 200

Fence == [kind |-> "fence", n |-> 1, of |-> <<>>]
Prose(n) == [kind |-> "prose", n |-> n, of |-> <<>>]
Space == [kind |-> " ", n |-> 0, of |-> <<>>]
\* summarizer(text, ...)[0]["summary_text"]
Summary(text) == [kind |-> "summary", n |-> 0, of |-> text]

\* re.split on the pattern (fence.*?fence), from item i on: the text before each
\* fenced block and the block itself, then what follows the last block.
RECURSIVE re_split(_, _)
re_split(text, i) ==
    LET opens == {a \in i..Len(text) :
                     text[a] = Fence /\ \E b \in (a + 1)..Len(text) : text[b] = Fence}
    IN  IF opens = {} THEN <<SubSeq(text, i, Len(text))>>
        ELSE LET a == Min(opens)
                 b == Min({c \in (a + 1)..Len(text) : text[c] = Fence})
             IN  <<SubSeq(text, i, a - 1), SubSeq(text, a, b)>> \o re_split(text, b + 1)

\* len(tokenizer(text)["input_ids"])
RECURSIVE total_tokens(_)
total_tokens(text) ==
    IF text = <<>> THEN 0 ELSE Head(text).n + total_tokens(Tail(text))

\* tokenizer.decode(tokens[:k]): the text of the first k tokens
RECURSIVE first_tokens(_, _)
first_tokens(text, k) ==
    IF text = <<>> \/ k = 0 THEN <<>>
    ELSE IF Head(text).n <= k
    THEN <<Head(text)>> \o first_tokens(Tail(text), k - Head(text).n)
    ELSE <<[Head(text) EXCEPT !.n = k]>>

\* summarize_text (lines 43-56): what it returns and the texts it hands to
\* the summarizer
summarize_text(text) ==
    IF total_tokens(text) < MIN_TOKENS_TO_SUMMARIZE
    THEN [text |-> text, calls |-> <<>>]
    ELSE LET t == IF total_tokens(text) > MAX_TOKENS_ACCEPTED_BY_SUMMARIZER
                  THEN first_tokens(text, (MAX_TOKENS_ACCEPTED_BY_SUMMARIZER * 75) \div 100)
                  ELSE text
         IN  [text |-> <<Summary(t)>>, calls |-> <<t>>]

\* sequences[i].startswith(fence)
startswith_fence(segment) == segment # <<>> /\ Head(segment) = Fence

\* " ".join(sequences)
RECURSIVE join(_)
join(sequences) ==
    IF sequences = <<>> THEN <<>>
    ELSE IF Len(sequences) = 1 THEN Head(sequences)
    ELSE Head(sequences) \o <<Space>> \o join(Tail(sequences))

\* process_sequences (lines 59-63): the list after the loop, the summarizer
\* calls made, and the joined text
RECURSIVE process_from(_, _)
process_from(sequences, i) ==
    IF i > Len(sequences) THEN [sequences |-> <<>>, calls |-> <<>>]
    ELSE LET rest == process_from(sequences, i + 1)
             r == IF ~startswith_fence(sequences[i])
                  THEN summarize_text(sequences[i])
                  ELSE [text |-> sequences[i], calls |-> <<>>]
         IN  [sequences |-> <<r.text>> \o rest.sequences, calls |-> r.calls \o rest.calls]

process_sequences(sequences) ==
    LET r == process_from(sequences, 1) IN
    [sequences |-> r.sequences, calls |-> r.calls, joined |-> join(r.sequences)]

\* re.sub(r"\s+", " ", summarized_text).strip() on items (lines 77-78)
RECURSIVE collapse_spaces(_)
collapse_spaces(t) ==
    IF Len(t) < 2 THEN t
    ELSE IF t[1] = Space /\ t[2] = Space THEN collapse_spaces(Tail(t))
    ELSE <<Head(t)>> \o collapse_spaces(Tail(t))

strip_spaces(t) ==
    LET keep == {j \in 1..Len(t) : t[j] # Space} IN
    IF keep = {} THEN <<>>
    ELSE SubSeq(t, Min(keep), CHOOSE j \in keep : \A k \in keep : k <= j)

\* The cleaned texts of the model: token counts around both thresholds.
TokenCounts ==
    {1, MIN_TOKENS_TO_SUMMARIZE - 1, MIN_TOKENS_TO_SUMMARIZE,
     MAX_TOKENS_ACCEPTED_BY_SUMMARIZER, MAX_TOKENS_ACCEPTED_BY_SUMMARIZER + 1}
SummarizerTexts == SeqsUpTo({Fence} \cup {Prose(n) : n \in TokenCounts}, MaxItems)

\* download_file of the summarizing extractor (lines 66-88), from the
\* cleaned text on
summarizing_download_file(text) ==
    /\ LET sequences == re_split(text, 1)
           r == process_sequences(sequences)
       IN  /\ summarized' = [made |-> TRUE, text |-> text, segments |-> sequences,
                             sequences |-> r.sequences, calls |-> r.calls]
           /\ jsonl' = append_record(jsonl,
                          [title |-> "index.md", repo_owner |-> SampleRepo.owner,
                           repo_name |-> SampleRepo.repo,
                           text |-> strip_spaces(collapse_spaces(r.joined))])
    /\ UNCHANGED <<chatVars, storeVars, response_text, extractVars>>

SummInit ==
    summarized = [made |-> FALSE, text |-> <<>>, segments |-> <<>>,
                  sequences |-> <<>>, calls |-> <<>>]

NextSumm ==
    /\ jsonl = NoFile
    /\ \E text \in SummarizerTexts : summarizing_download_file(text)

ChatInit ==
    /\ chat_type = "qa_chat"
    /\ pc = "idle"
    /\ chat_history = <<>>
    /\ calls = <<>>
    /\ linesRead = <<>>
    /\ depth = 0
    /\ endReason = "none"
    /\ sessions = 0

Init == ChatInit /\ StoreInit /\ CleanInit /\ ExtractInit /\ SummInit

NextChat ==
    \/ \E ct \in ChatTypes : run_conversation(ct)
    \/ get_query_from_user_eof
    \/ \E line \in Lines, outcome \in Answers \cup {Raise} : loop_iteration(line, outcome)

SpecChat == Init /\ [][NextChat]_vars

SpecStore == Init /\ [][NextStore]_vars

SpecClean == Init /\ [][NextClean]_vars

SpecExtract == Init /\ [][NextExtract]_vars

SpecSumm == Init /\ [][NextSumm]_vars

(***************************************************************************)
(* Properties of the conversation engine (checked under SpecChat).         *)
(***************************************************************************)
\* A line that is "salir" in some letter case, decided letter by letter.
SalirAnyCase(l) ==
    /\ Len(l) = 5
    /\ l[1] \in {"s", "S"} /\ l[2] \in {"a", "A"} /\ l[3] \in {"l", "L"}
    /\ l[4] \in {"i", "I"} /\ l[5] \in {"r", "R"}

\* The lines of this session that are queries, in input order.
QueriesRead == SelectSeq(linesRead, LAMBDA l : ~SalirAnyCase(l))

\* The query text a recorded chain call was made for.
QueryOf(c) ==
    IF c.call.chain = "RetrievalQA" THEN c.call.inputs.query
    ELSE c.call.inputs.question

\* C1: in memory_chat mode, after N queries whose chain calls returned,
\* chat_history has exactly N elements and its i-th element is the pair
\* (i-th query, answer returned for it), in submission order; the i-th call
\* was handed the i-1 pairs recorded before it; a session starts from an
\* empty history.
C1_MemoryHistoryIsTheReturnedPairs ==
    chat_type = "memory_chat" =>
        LET returned == SelectSeq(calls, LAMBDA c : c.result # Raise) IN
        /\ Len(chat_history) = Len(returned)
        /\ \A i \in 1..Len(returned) :
              /\ chat_history[i] = <<QueriesRead[i], returned[i].result>>
              /\ returned[i].call.inputs.chat_history = SubSeq(chat_history, 1, i - 1)
        /\ (linesRead = <<>> => chat_history = <<>>)

C1_Witness ==
    /\ chat_type = "memory_chat"
    /\ sessions = 2
    /\ Len(chat_history) = 3
    /\ chat_history[1][1] # chat_history[2][1]
    /\ chat_history[1][2] # chat_history[3][2]

\* C2: in qa_chat mode every chain call is handed the query text, the
\* retriever and the llm and nothing else, so two calls for the same query
\* are identical whatever was asked before them, and chat_history stays
\* empty for the whole session.
C2_QaCallDependsOnQueryOnly ==
    chat_type = "qa_chat" =>
        /\ chat_history = <<>>
        /\ \A i \in 1..Len(calls) :
              /\ calls[i].call.chain = "RetrievalQA"
              /\ DOMAIN calls[i].call.inputs = {"query", "retriever", "llm"}
              /\ calls[i].call.inputs.query = QueriesRead[i]
        /\ \A i, j \in 1..Len(calls) :
              QueryOf(calls[i]) = QueryOf(calls[j]) => calls[i].call = calls[j].call

C2_Witness ==
    /\ chat_type = "qa_chat"
    /\ Len(calls) = 3
    /\ QueryOf(calls[1]) # QueryOf(calls[2])
    /\ QueryOf(calls[2]) = QueryOf(calls[3])
    /\ calls[2].result # calls[3].result
    /\ calls[3].result # Raise

\* C3: a line that is "salir" in any letter case ends the loop with no chain
\* call for it and nothing is read after it; every other line read (the
\* empty line and "SALIR " with a trailing space included) is dispatched
\* exactly once, in input order, to the handler of the active mode.
C3_SentinelEndsLoopOthersDispatchedOnce ==
    /\ \A i \in 1..(Len(linesRead) - 1) : ~SalirAnyCase(linesRead[i])
    /\ Len(calls) = Len(QueriesRead)
    /\ \A i \in 1..Len(calls) :
          /\ QueryOf(calls[i]) = QueriesRead[i]
          /\ calls[i].call.chain =
                (IF chat_type = "memory_chat"
                 THEN "ConversationalRetrievalChain" ELSE "RetrievalQA")
    /\ (pc = "done") <=> (linesRead # <<>> /\ SalirAnyCase(Last(linesRead)))

C3_Witness ==
    /\ pc = "done"
    /\ Len(linesRead) = 3
    /\ linesRead[1] = <<"S", "A", "L", "I", "R", " ">>
    /\ linesRead[2] = <<>>
    /\ linesRead[3] = <<"S", "A", "L", "I", "R">>
    /\ Len(calls) = 2

\* C10: a session ends only by reading the sentinel or by a chain call that
\* raises; end-of-input never ends it.
C10_SessionEndsOnlyBySentinelOrCallFailure ==
    pc \in {"done", "crashed"} => endReason \in {"sentinel", "call_failed"}

(***************************************************************************)
(* Properties of the vector store manager (checked under SpecStore).       *)
(***************************************************************************)
\* C4: when recreate_chroma_db is false, get_chroma_db embeds none of the
\* supplied documents and writes none of them: the store it returns and the
\* index at path both hold exactly what was persisted before the call,
\* whatever the documents argument is.
C4_OpenIgnoresDocuments ==
    (lastCall.made /\ ~lastCall.recreate) =>
        /\ embedded = <<>>
        /\ vectorstore = lastCall.before
        /\ persisted = lastCall.before

C4_Witness ==
    /\ lastCall.made /\ ~lastCall.recreate
    /\ lastCall.before # <<>>
    /\ lastCall.documents # <<>>
    /\ lastCall.documents # lastCall.before
    /\ vectorstore = lastCall.before

\* C5: when recreate_chroma_db is true, every supplied chunk is embedded
\* exactly once and the index persisted at path afterwards holds exactly the
\* supplied chunks (what was persisted before is discarded).
C5_RebuildHoldsExactlyTheSuppliedChunks ==
    (lastCall.made /\ lastCall.recreate) =>
        /\ embedded = lastCall.documents
        /\ persisted = lastCall.documents
        /\ vectorstore = lastCall.documents

(***************************************************************************)
(* Properties of text cleaning (checked under SpecClean).                  *)
(***************************************************************************)
\* The text persisted by the last download_file call.
PersistedText == Last(jsonl).text

\* No HTML tag, URL, "Copyright" marker, emoji or emoji token starts anywhere.
NoArtifacts(t) ==
    \A i \in 1..Len(t) :
        /\ match_tag(t, i) = 0
        /\ match_url(t, i) = 0
        /\ match_copyright(t, i) = 0
        /\ match_emoji_token(t, i) = 0
        /\ t[i] \notin Emoji

\* The positions of t inside a match of the pattern, scanning as re.sub does.
RECURSIVE Spans(_, _, _)
Spans(pattern, t, i) ==
    IF i > Len(t) THEN {}
    ELSE LET e == re_match(pattern, t, i) IN
         IF e # 0 THEN (i..e) \cup Spans(pattern, t, e + 1)
         ELSE Spans(pattern, t, i + 1)

\* The characters of t that are in no artifact and are not whitespace.
NonArtifactChars(t) ==
    LET inside == Spans("<[^>]*>", t, 1) \cup Spans("http\\S+|www.\\S+", t, 1)
                  \cup Spans("Copyright.*", t, 1)
                  \cup Spans(":[a-z_&+-]+:", t, 1)
                  \cup {i \in 1..Len(t) : t[i] \in Emoji \cup WS}
        keep == [i \in 1..Len(t) |-> IF i \in inside THEN <<>> ELSE <<t[i]>>]
    IN  FlattenSeq(keep)

RECURSIVE IsSubsequence(_, _)
IsSubsequence(a, b) ==
    IF a = <<>> THEN TRUE
    ELSE IF b = <<>> THEN FALSE
    ELSE IF Head(a) = Head(b) THEN IsSubsequence(Tail(a), Tail(b))
    ELSE IsSubsequence(a, Tail(b))

\* C7: the text persisted by download_file holds no HTML tag, no URL, no
\* "Copyright" marker and no emoji or emoji token, and every character of
\* the input outside such artifacts (and outside whitespace) appears in it
\* in its original relative order.
C7_CleanedTextHasNoArtifacts ==
    jsonl # NoFile =>
        /\ NoArtifacts(PersistedText)
        /\ IsSubsequence(NonArtifactChars(response_text), PersistedText)

(***************************************************************************)
(* Properties of the extractor (checked under SpecExtract).                *)
(***************************************************************************)
\* Every node at or below d, with whether each directory above it (the
\* starting directory included) answers its listing with 200.
RECURSIVE Walk(_, _)
Walk(d, reached) ==
    {[node |-> d, reached |-> reached]}
    \cup UNION {Walk(d.children[i], reached /\ d.type = "dir" /\ d.ok) :
                  i \in 1..Len(d.children)}

\* The directories process_directory gets to: the starting one, and every
\* directory all of whose ancestors listed successfully.
ReachedDirectories ==
    {w.node.path : w \in {v \in Walk(remote, TRUE) : v.node.type = "dir" /\ v.reached}}

\* The .md/.mdx files all of whose ancestor directories listed successfully
\* (a name is its position digit followed by its extension).
ReachedMarkdownFiles ==
    {w.node.download_url :
        w \in {v \in Walk(remote, TRUE) :
                  /\ v.node.type = "file"
                  /\ Tail(v.node.name) \in {DotMd, DotMdx}
                  /\ v.reached}}

\* Depth-first listing order of two different paths of files.
PositionOf(name) == CHOOSE i \in 1..Len(Digits) : Digits[i] = name[1]
ListedBefore(p, q) ==
    \E k \in 1..Len(p) :
        /\ k <= Len(q)
        /\ SubSeq(p, 1, k - 1) = SubSeq(q, 1, k - 1)
        /\ p[k] # q[k]
        /\ PositionOf(p[k]) < PositionOf(q[k])

NoDuplicates(q) == \A i, j \in 1..Len(q) : q[i] = q[j] => i = j
Range(q) == {q[i] : i \in 1..Len(q)}

\* C6: a process_directory call issues exactly one listing request per
\* directory it reaches, skips the subtree of a directory whose listing
\* fails, goes on with the siblings after it, and appends exactly one record
\* per .md/.mdx file whose ancestors all listed successfully, in depth-first
\* listing order; no other entry produces a record or a request.
C6_OneRequestPerDirectoryOneRecordPerFile ==
    repoIdx >= 1 =>
        /\ NoDuplicates(lastTraversal.listings)
        /\ Range(lastTraversal.listings) = ReachedDirectories
        /\ NoDuplicates(lastTraversal.downloads)
        /\ Range(lastTraversal.downloads) = ReachedMarkdownFiles
        /\ \A i, j \in 1..Len(lastTraversal.downloads) :
              i < j => ListedBefore(Tail(lastTraversal.downloads[i]),
                                    Tail(lastTraversal.downloads[j]))
        /\ Len(lastTraversal.records) = Len(lastTraversal.downloads)
        /\ \A i \in 1..Len(lastTraversal.records) :
              lastTraversal.records[i].title = Last(lastTraversal.downloads[i])

C6_Witness ==
    /\ repoIdx >= 1
    /\ remote.ok
    /\ Len(remote.children) = 2
    /\ remote.children[1].type = "dir" /\ ~remote.children[1].ok
    /\ Len(remote.children[1].children) = 1
    /\ remote.children[1].children[1].type = "file"
    /\ Tail(remote.children[1].children[1].name) = DotMd
    /\ remote.children[2].type = "file"
    /\ Tail(remote.children[2].name) = DotMdx
    /\ lastTraversal.listings = <<RootPath, remote.children[1].path>>
    /\ lastTraversal.downloads = <<remote.children[2].download_url>>
    /\ Len(lastTraversal.records) = 1

\* C8: once main has traversed every configured repository (token set),
\* whatever the traversal found, the date-stamped file exists, holds exactly
\* the records appended during this run, and is the member of the archive.
C8_FileExistsAndIsArchived ==
    xpc \in {"done", "crashed"} =>
        /\ jsonl # NoFile
        /\ jsonl = runRecords
        /\ tar = <<[name |-> "jsonl", content |-> jsonl]>>

(***************************************************************************)
(* Properties of the summarizing extractor (checked under SpecSumm).       *)
(***************************************************************************)
\* The segments re.split produced: the fenced code blocks are the captured
\* ones, at the even places of the list; the others are the non-code ones.
IsCodeBlock(i) == i % 2 = 0

\* What the claim has the summarizer handed for segment i (nothing, the
\* segment, or its first 768 tokens).
ExpectedCall(i) ==
    LET seg == summarized.segments[i] IN
    IF IsCodeBlock(i) \/ total_tokens(seg) < 200 THEN <<>>
    ELSE IF total_tokens(seg) > 1024 THEN <<first_tokens(seg, 768)>>
    ELSE <<seg>>

\* C9: code-block segments are emitted verbatim and never summarized; a
\* non-code segment under 200 tokens is emitted unchanged with no summarizer
\* call; one over 1024 tokens is cut to its first 768 tokens before its
\* single summarizer call; every other non-code segment is passed whole to
\* exactly one call; the outputs keep the number and order of the segments.
C9_SegmentsSummarizedByThreshold ==
    summarized.made =>
        /\ Len(summarized.sequences) = Len(summarized.segments)
        /\ \A i \in 1..Len(summarized.segments) :
              summarized.sequences[i] =
                 (IF ExpectedCall(i) = <<>> THEN summarized.segments[i]
                  ELSE <<Summary(ExpectedCall(i)[1])>>)
        /\ summarized.calls =
              FlattenSeq([i \in 1..Len(summarized.segments) |-> ExpectedCall(i)])

====
